---- MODULE Spec2Model ----
(***************************************************************************)
(* A model of swshtools.py: the six converters between the binary game     *)
(* data files (personal_total.bin, wazaoboe_total.bin, pokecaplist.bin)    *)
(* and their JSON forms.  Every run of the command line tool is one        *)
(* action: it reads its input file, converts, and writes its output file   *)
(* as its last step, or raises and writes nothing.                         *)
(*                                                                         *)
(* Binary files are sequences of bytes (0..255).  A file is <<>> when it   *)
(* does not exist and <<content>> when it does.  Offsets are 0-based as in *)
(* the source; sequences are 1-based, so the byte at offset o is buf[o+1]. *)
(***************************************************************************)
EXTENDS Integers, Sequences, FiniteSets, TLC

VARIABLES
    orig,       \* history: the input the scenario started from
    trace,      \* history: the subcommands run so far, in order
    status,     \* outcome of the last run: "ok" or the exception raised
    stdout,     \* what the last run printed: the creatures warned about
    pbin,       \* personal_total.bin
    pjson,      \* its JSON form
    wbin,       \* wazaoboe_total.bin
    wjson,      \* its JSON form
    cbin,       \* pokecaplist.bin
    cjson,      \* its JSON form
    fn          \* the pure-function harness (EV yield, learnset bits)

vars == <<orig, trace, status, stdout, pbin, pjson, wbin, wjson, cbin, cjson, fn>>

(***************************************************************************)
(* Bounds of the model.                                                    *)
(***************************************************************************)
NumPokemon == 2
MaxRuns == 2
MaxEV == 4
MaxMaster == 9

(***************************************************************************)
(* Files.                                                                  *)
(***************************************************************************)
NoFile == <<>>
File(c) == <<c>>
Exists(f) == f # NoFile
Content(f) == f[1]

(***************************************************************************)
(* Integer helpers for the bit operators of the source.                    *)
(***************************************************************************)
RECURSIVE Pow2(_)
Pow2(n) == IF n = 0 THEN 1 ELSE 2 * Pow2(n - 1)

Shr(a, n) == a \div Pow2(n)
Shl(a, n) == a * Pow2(n)

RECURSIVE BitAnd(_, _)
BitAnd(a, b) ==
    IF a = 0 \/ b = 0 THEN 0
    ELSE (IF a % 2 = 1 /\ b % 2 = 1 THEN 1 ELSE 0) + 2 * BitAnd(a \div 2, b \div 2)

RECURSIVE BitOr(_, _)
BitOr(a, b) ==
    IF a = 0 THEN b
    ELSE IF b = 0 THEN a
    ELSE (IF a % 2 = 1 \/ b % 2 = 1 THEN 1 ELSE 0) + 2 * BitOr(a \div 2, b \div 2)

Repeat(x, n) == [k \in 1..n |-> x]

(***************************************************************************)
(* The enumeration tables of constants.json.  The file is not part of the  *)
(* sources; the tables below are small stand-ins with distinct names.      *)
(***************************************************************************)
AllPokemon == <<"Bulbasaur", "Ivysaur", "Venusaur", "Charmander">>

Registry ==
    [ pokemon      |-> SubSeq(AllPokemon, 1, NumPokemon),
      moves        |-> <<"None", "Pound", "Karate Chop">>,
      types        |-> <<"Normal", "Fighting", "Flying">>,
      abilities    |-> <<"None", "Stench">>,
      items        |-> <<"None", "Master Ball">>,
      egg_groups   |-> <<"None", "Monster">>,
      growth_types |-> <<"Medium Fast", "Erratic">>,
      dex_colors   |-> <<"Red", "Blue", "Yellow">>,
      tms          |-> <<"Mega Punch", "Mega Kick", "Pay Day">>,
      trs          |-> <<"Swords Dance", "Body Slam">>,
      move_tutors  |-> <<"Grass Pledge", "Fire Pledge">>,
      armor_tutors |-> <<"Terrain Pulse", "Burning Jealousy">>,
      genders      |-> <<"Male", "Female", "Genderless">> ]

\* cnstname raises IndexError when the code is past the end of the category
\* (codes are unsigned fields, so never negative).
cnstname_raises(category, cval) == cval >= Len(Registry[category])
cnstname(category, cval) == Registry[category][cval + 1]

\* cnstval raises ValueError when the name is absent; list.index gives the
\* first position otherwise.
cnstval_raises(category, cname) ==
    \A k \in 1..Len(Registry[category]) : Registry[category][k] # cname
cnstval(category, cname) ==
    (CHOOSE k \in 1..Len(Registry[category]) :
        /\ Registry[category][k] = cname
        /\ \A j \in 1..(k - 1) : Registry[category][j] # cname) - 1

(***************************************************************************)
(* struct: little-endian unsigned integers of n bytes.                     *)
(***************************************************************************)
RECURSIVE le_bytes(_, _)
le_bytes(v, n) == IF n = 0 THEN <<>> ELSE <<v % 256>> \o le_bytes(v \div 256, n - 1)

RECURSIVE le_value(_)
le_value(bs) == IF bs = <<>> THEN 0 ELSE bs[1] + 256 * le_value(Tail(bs))

\* The bytes of buffer at offsets off .. off+n-1.
Slice(buffer, off, n) == SubSeq(buffer, off + 1, off + n)

\* buffer with bs written at offset off.
WriteAt(buffer, off, bs) ==
    SubSeq(buffer, 1, off) \o bs \o SubSeq(buffer, off + Len(bs) + 1, Len(buffer))

\* A value struct refuses for an unsigned field of n bytes (struct.error).
UIntLimit(n) == IF n = 1 THEN 256 ELSE IF n = 2 THEN 65536 ELSE 2147483647
struct_range_error(v, n) == v < 0 \/ v >= UIntLimit(n)

\* unpack_from / pack_into raise struct.error when the buffer is too short.
struct_short(buffer, off, n) == off + n > Len(buffer)

\* One run of the tool with subcommand cmd.
Ran(cmd) ==
    /\ Len(trace) < MaxRuns
    /\ trace' = Append(trace, cmd)

(***************************************************************************)
(* Level-up learnsets (wazaoboe_total.bin).                                *)
(* A JSON object is the sequence of its (key, value) pairs in key order.   *)
(***************************************************************************)
SlotSize == 260
SlotPairs == 65
Sentinel == 65535

\* struct.unpack_from("<2H", buffer, offset)
unpack_2H(buffer, offset) ==
    [ move  |-> buffer[offset + 1] + 256 * buffer[offset + 2],
      level |-> buffer[offset + 3] + 256 * buffer[offset + 4] ]

\* A variant of pack_2H with the two words in the other order.
pack_2H_level_first(move, level) ==
    <<level % 256, level \div 256, move % 256, move \div 256>>

\* struct.pack("<2H", move, level)
pack_2H(move, level) ==
    <<move % 256, move \div 256, level % 256, level \div 256>>

\* A variant of wz_pair_emitted that drops only the all-sentinel pair.
wz_pair_emitted_either(move, level) == move # Sentinel \/ level # Sentinel

\* The test that admits a pair to the output.
wz_pair_emitted(move, level) == move # Sentinel /\ level # Sentinel

\* The inner loop of unpack_wazaoboe from pair j on: the moves_list built.
RECURSIVE wz_moves_list(_, _, _)
wz_moves_list(buffer, i, j) ==
    IF j = SlotPairs THEN <<>>
    ELSE LET p == unpack_2H(buffer, i * SlotSize + 4 * j)
         IN  (IF wz_pair_emitted(p.move, p.level)
                 THEN <<[level |-> p.level, move |-> cnstname("moves", p.move)]>>
                 ELSE <<>>)
             \o wz_moves_list(buffer, i, j + 1)

\* The number of records the outer loop visits.
wz_record_count(buffer) == Len(buffer) \div SlotSize

\* Some lookup of the run raises IndexError: a move code of an emitted pair
\* that is no index of the moves table, or a record past the pokemon table.
unpack_wazaoboe_raises(buffer) ==
    \E i \in 0..(wz_record_count(buffer) - 1) :
        \/ i >= Len(Registry.pokemon)
        \/ \E j \in 0..(SlotPairs - 1) :
              LET p == unpack_2H(buffer, i * SlotSize + 4 * j)
              IN  wz_pair_emitted(p.move, p.level) /\ cnstname_raises("moves", p.move)

\* The entries dict unpack_wazaoboe dumps (the string replacements that
\* follow json.dumps only move white space).
unpack_wazaoboe(buffer) ==
    [i \in 1..wz_record_count(buffer) |->
        [name |-> Registry.pokemon[i], moves |-> wz_moves_list(buffer, i - 1, 0)]]

\* The entries written for a list of n: at most 65.
\* A variant of wz_num_entries that never truncates.
wz_num_entries_all(n) == n

wz_num_entries(n) == IF n > SlotPairs THEN SlotPairs ELSE n

\* The warning is printed for a list of n.
wz_warns(n) == n > SlotPairs

\* The loop over one creature's entries from entry i (0-based) on.
RECURSIVE wz_write_moves(_, _, _, _, _)
wz_write_moves(buffer, offset, move_list, i, n) ==
    IF i = n THEN [buffer |-> buffer, err |-> "ok"]
    ELSE LET entry == move_list[i + 1]
         IN  IF cnstval_raises("moves", entry.move)
                THEN [buffer |-> buffer, err |-> "ValueError"]
             ELSE LET move == cnstval("moves", entry.move)
                  IN  IF \/ struct_range_error(move, 2)
                         \/ struct_range_error(entry.level, 2)
                         \/ struct_short(buffer, offset, 4)
                         THEN [buffer |-> buffer, err |-> "struct.error"]
                      ELSE wz_write_moves(
                              WriteAt(buffer, offset, pack_2H(move, entry.level)),
                              offset + 4, move_list, i + 1, n)

\* The loop of pack_wazaoboe over the input's creatures from the k-th on;
\* st is the buffer, the names warned about and the exception raised so far.
RECURSIVE pack_wazaoboe_loop(_, _, _)
pack_wazaoboe_loop(entries, k, st) ==
    IF k > Len(entries) \/ st.err # "ok" THEN st
    ELSE LET pokemon_name == entries[k].name
             move_list == entries[k].moves
         IN  IF cnstval_raises("pokemon", pokemon_name)
                THEN [st EXCEPT !.err = "ValueError"]
             ELSE LET w == wz_write_moves(st.buffer,
                                          cnstval("pokemon", pokemon_name) * SlotSize,
                                          move_list, 0, wz_num_entries(Len(move_list)))
                  IN  pack_wazaoboe_loop(entries, k + 1,
                         [ buffer |-> w.buffer,
                           out    |-> IF wz_warns(Len(move_list))
                                         THEN Append(st.out, pokemon_name)
                                         ELSE st.out,
                           err    |-> w.err ])

pack_wazaoboe(entries) ==
    pack_wazaoboe_loop(entries, 1,
        [ buffer |-> Repeat(255, Len(Registry.pokemon) * SlotSize),
          out    |-> <<>>,
          err    |-> "ok" ])

UnpackWazaoboe ==
    /\ Ran("uwazaoboe")
    /\ stdout' = <<>>
    /\ Exists(wbin)
    /\ IF unpack_wazaoboe_raises(Content(wbin))
          THEN status' = "IndexError" /\ UNCHANGED wjson
       ELSE status' = "ok" /\ wjson' = File(unpack_wazaoboe(Content(wbin)))
    /\ UNCHANGED <<orig, pbin, pjson, wbin, cbin, cjson, fn>>

PackWazaoboe ==
    /\ Ran("pwazaoboe")
    /\ Exists(wjson)
    /\ LET r == pack_wazaoboe(Content(wjson))
       IN  /\ status' = r.err
           /\ stdout' = r.out
           /\ IF r.err = "ok" THEN wbin' = File(r.buffer) ELSE UNCHANGED wbin
    /\ UNCHANGED <<orig, pbin, pjson, wjson, cbin, cjson, fn>>

(***************************************************************************)
(* Pokemon base stats (personal_total.bin).                                *)
(***************************************************************************)
RecordSize == 176

BLANK_PRSNL_ENTRY ==
    Repeat(0, 18) \o <<255>> \o Repeat(0, 14) \o <<64>> \o Repeat(0, 62)
    \o <<1, 0, 1, 0, 1, 0, 1, 0, 1>> \o Repeat(0, 26) \o Repeat(1, 15) \o Repeat(0, 30)

\* The format "<10B4H6B4H2B3H16s4s16sI8H72s4s2H" as <<count, code>> pairs.
PERSONAL_ENTRY_STRUCT ==
    << <<10, "B">>, <<4, "H">>, <<6, "B">>, <<4, "H">>, <<2, "B">>, <<3, "H">>,
       <<16, "s">>, <<4, "s">>, <<16, "s">>, <<1, "I">>, <<8, "H">>, <<72, "s">>,
       <<4, "s">>, <<2, "H">> >>

\* The items of a format: one [size, code] per value packed or unpacked.  A
\* count before "s" is the length of one byte string; before any other code
\* it repeats the item.
RECURSIVE struct_items(_)
struct_items(fmt) ==
    IF fmt = <<>> THEN <<>>
    ELSE (IF fmt[1][2] = "s"
             THEN <<[size |-> fmt[1][1], code |-> "s"]>>
             ELSE Repeat([size |-> IF fmt[1][2] = "B" THEN 1
                                   ELSE IF fmt[1][2] = "H" THEN 2 ELSE 4,
                          code |-> fmt[1][2]], fmt[1][1]))
         \o struct_items(Tail(fmt))

\* "<": no padding, so an item starts where the one before it ends.
RECURSIVE struct_offsets(_, _)
struct_offsets(items, at) ==
    IF items = <<>> THEN <<>>
    ELSE <<at>> \o struct_offsets(Tail(items), at + items[1].size)

PersonalItems == struct_items(PERSONAL_ENTRY_STRUCT)
PersonalOffsets == struct_offsets(PersonalItems, 0)

\* The names the unpacked values are bound to, and the order of the values
\* pack_into is given.
PersonalNames ==
    << "base_hp", "base_atk", "base_def", "base_spd", "base_sp_atk", "base_sp_def",
       "type_1", "type_2", "catch_rate", "evolution_stage", "ev_yield", "common_item",
       "rare_item", "very_rare_item", "gender_rate", "hatch_cycles", "base_friendship",
       "growth_type", "egg_group_1", "egg_group_2", "ability_1", "ability_2",
       "hidden_ability", "first_form_index", "form_count", "pokedex_bits", "base_exp",
       "height", "weight", "tm_bits", "move_tutors_bits", "tr_bits", "icon_id",
       "special_z_item", "special_z_base_move", "special_z_move", "egg_species",
       "egg_form", "special_species_flags", "pokedex_number", "unk5E", "unk60",
       "armor_tutors_bits", "armor_dex_number", "crown_dex_number" >>

PersonalIndex(name) == CHOOSE k \in 1..Len(PersonalNames) : PersonalNames[k] = name

\* The k-th value PERSONAL_ENTRY_STRUCT.unpack_from(buffer, offset) returns.
personal_unpack_item(buffer, offset, k) ==
    LET bs == Slice(buffer, offset + PersonalOffsets[k], PersonalItems[k].size)
    IN  IF PersonalItems[k].code = "s" THEN bs ELSE le_value(bs)

\* PERSONAL_ENTRY_STRUCT.unpack_from(buffer, offset), its values bound to the
\* names of the assignment, in order.
personal_unpack_from(buffer, offset) ==
    LET v == [k \in 1..Len(PersonalItems) |-> personal_unpack_item(buffer, offset, k)]
    IN  [
          base_hp               |-> v[1],
          base_atk              |-> v[2],
          base_def              |-> v[3],
          base_spd              |-> v[4],
          base_sp_atk           |-> v[5],
          base_sp_def           |-> v[6],
          type_1                |-> v[7],
          type_2                |-> v[8],
          catch_rate            |-> v[9],
          evolution_stage       |-> v[10],
          ev_yield              |-> v[11],
          common_item           |-> v[12],
          rare_item             |-> v[13],
          very_rare_item        |-> v[14],
          gender_rate           |-> v[15],
          hatch_cycles          |-> v[16],
          base_friendship       |-> v[17],
          growth_type           |-> v[18],
          egg_group_1           |-> v[19],
          egg_group_2           |-> v[20],
          ability_1             |-> v[21],
          ability_2             |-> v[22],
          hidden_ability        |-> v[23],
          first_form_index      |-> v[24],
          form_count            |-> v[25],
          pokedex_bits          |-> v[26],
          base_exp              |-> v[27],
          height                |-> v[28],
          weight                |-> v[29],
          tm_bits               |-> v[30],
          move_tutors_bits      |-> v[31],
          tr_bits               |-> v[32],
          icon_id               |-> v[33],
          special_z_item        |-> v[34],
          special_z_base_move   |-> v[35],
          special_z_move        |-> v[36],
          egg_species           |-> v[37],
          egg_form              |-> v[38],
          special_species_flags |-> v[39],
          pokedex_number        |-> v[40],
          unk5E                 |-> v[41],
          unk60                 |-> v[42],
          armor_tutors_bits     |-> v[43],
          armor_dex_number      |-> v[44],
          crown_dex_number      |-> v[45] ]

\* One value as pack_into lays it down: an integer little-endian, a byte
\* string cut or zero-filled to the item's size.
struct_item_bytes(item, v) ==
    IF item.code = "s"
       THEN IF Len(v) >= item.size THEN SubSeq(v, 1, item.size)
            ELSE v \o Repeat(0, item.size - Len(v))
       ELSE le_bytes(v, item.size)

\* pack_into raises struct.error for an integer outside its item's range.
personal_pack_raises(values) ==
    \E k \in 1..Len(PersonalItems) :
        /\ PersonalItems[k].code # "s"
        /\ struct_range_error(values[k], PersonalItems[k].size)

\* The bytes PERSONAL_ENTRY_STRUCT.pack_into writes for its values, in order.
RECURSIVE personal_pack_from(_, _)
personal_pack_from(values, k) ==
    IF k > Len(PersonalItems) THEN <<>>
    ELSE struct_item_bytes(PersonalItems[k], values[k])
         \o personal_pack_from(values, k + 1)

personal_pack(values) == personal_pack_from(values, 1)

\* bytes.hex(): two lower-case digits per byte, as a sequence of characters.
HexDigits == <<"0", "1", "2", "3", "4", "5", "6", "7", "8", "9",
               "a", "b", "c", "d", "e", "f">>
HexUpper == <<"0", "1", "2", "3", "4", "5", "6", "7", "8", "9",
              "A", "B", "C", "D", "E", "F">>

hex(bs) ==
    [k \in 1..(2 * Len(bs)) |->
        IF k % 2 = 1 THEN HexDigits[(bs[(k + 1) \div 2] \div 16) + 1]
        ELSE HexDigits[(bs[k \div 2] % 16) + 1]]

IsHexDigit(ch) == \E d \in 1..16 : HexDigits[d] = ch \/ HexUpper[d] = ch
HexValue(ch) == (CHOOSE d \in 1..16 : HexDigits[d] = ch \/ HexUpper[d] = ch) - 1

\* bytes.fromhex(): ValueError unless the text is pairs of hex digits.
fromhex_raises(text) ==
    Len(text) % 2 = 1 \/ \E k \in 1..Len(text) : ~IsHexDigit(text[k])
fromhex(text) ==
    [k \in 1..(Len(text) \div 2) |->
        16 * HexValue(text[2 * k - 1]) + HexValue(text[2 * k])]

\* parse_learnset_bits: the names of master whose bit is set, in master order.
RECURSIVE parse_learnset_from(_, _, _)
parse_learnset_from(master, bits, index) ==
    IF index >= Len(master) THEN <<>>
    ELSE (IF BitAnd(bits[Shr(index, 3) + 1], Shl(1, index % 8)) # 0
             THEN <<master[index + 1]>> ELSE <<>>)
         \o parse_learnset_from(master, bits, index + 1)

parse_learnset_bits(master, bits) == parse_learnset_from(master, bits, 0)

\* parse_learnset_bits indexes past the bit array (IndexError).
parse_learnset_raises(master, bits) == Len(master) > 8 * Len(bits)

IsIn(x, list) == \E k \in 1..Len(list) : list[k] = x

\* A variant of pack_learnset_from that assigns the byte instead of or-ing
\* the bit into it.
RECURSIVE pack_learnset_assign(_, _, _, _)
pack_learnset_assign(master, selected, bits, index) ==
    IF index >= Len(master) THEN bits
    ELSE pack_learnset_assign(master, selected,
            IF IsIn(master[index + 1], selected)
               THEN WriteAt(bits, Shr(index, 3), <<Shl(1, index % 8)>>)
               ELSE bits,
            index + 1)

\* pack_learnset_bits: size zero bytes, then the bit of every master
\* position whose name is in selected.
RECURSIVE pack_learnset_from(_, _, _, _)
pack_learnset_from(master, selected, bits, index) ==
    IF index >= Len(master) THEN bits
    ELSE pack_learnset_from(master, selected,
            IF IsIn(master[index + 1], selected)
               THEN WriteAt(bits, Shr(index, 3),
                            <<BitOr(bits[Shr(index, 3) + 1], Shl(1, index % 8))>>)
               ELSE bits,
            index + 1)

pack_learnset_bits(master, selected, size) ==
    pack_learnset_from(master, selected, Repeat(0, size), 0)

\* pack_learnset_bits indexes past its bit array (IndexError).
pack_learnset_raises(master, selected, size) ==
    \E index \in 0..(Len(master) - 1) :
        IsIn(master[index + 1], selected) /\ Shr(index, 3) >= size

\* The six EV yields and the flag, out of the 16-bit ev_yield field.
unpack_ev_yield(ev_yield) ==
    [ evs_hp           |-> BitAnd(ev_yield, 3),
      evs_atk          |-> BitAnd(Shr(ev_yield, 2), 3),
      evs_def          |-> BitAnd(Shr(ev_yield, 4), 3),
      evs_sp_atk       |-> BitAnd(Shr(ev_yield, 8), 3),
      evs_sp_def       |-> BitAnd(Shr(ev_yield, 10), 3),
      evs_spd          |-> BitAnd(Shr(ev_yield, 6), 3),
      fail_telekinesis |-> BitAnd(Shr(ev_yield, 12), 3) # 0 ]

\* A variant of pack_ev_yield that does not mask evs_hp.
pack_ev_yield_unmasked(entry) ==
    BitOr(BitOr(BitOr(BitOr(BitOr(BitOr(
        entry.evs_hp,
        Shl(BitAnd(entry.evs_atk, 3), 2)),
        Shl(BitAnd(entry.evs_def, 3), 4)),
        Shl(BitAnd(entry.evs_spd, 3), 6)),
        Shl(BitAnd(entry.evs_sp_atk, 3), 8)),
        Shl(BitAnd(entry.evs_sp_def, 3), 10)),
        Shl(IF entry.fail_telekinesis THEN 1 ELSE 0, 12))

\* The ev_yield field, out of an entry's EV yields and flag.
pack_ev_yield(entry) ==
    BitOr(BitOr(BitOr(BitOr(BitOr(BitOr(
        BitAnd(entry.evs_hp, 3),
        Shl(BitAnd(entry.evs_atk, 3), 2)),
        Shl(BitAnd(entry.evs_def, 3), 4)),
        Shl(BitAnd(entry.evs_spd, 3), 6)),
        Shl(BitAnd(entry.evs_sp_atk, 3), 8)),
        Shl(BitAnd(entry.evs_sp_def, 3), 10)),
        Shl(IF entry.fail_telekinesis THEN 1 ELSE 0, 12))

\* Decoding the unpacked values raw of one record raises IndexError.
unpack_entry_raises(raw) ==
    \/ cnstname_raises("types", raw.type_1)
    \/ cnstname_raises("types", raw.type_2)
    \/ cnstname_raises("abilities", raw.ability_1)
    \/ cnstname_raises("abilities", raw.ability_2)
    \/ cnstname_raises("abilities", raw.hidden_ability)
    \/ cnstname_raises("growth_types", raw.growth_type)
    \/ cnstname_raises("items", raw.special_z_item)
    \/ cnstname_raises("moves", raw.special_z_base_move)
    \/ cnstname_raises("moves", raw.special_z_move)
    \/ cnstname_raises("egg_groups", raw.egg_group_1)
    \/ cnstname_raises("egg_groups", raw.egg_group_2)
    \/ cnstname_raises("pokemon", raw.egg_species)
    \/ cnstname_raises("items", raw.common_item)
    \/ cnstname_raises("items", raw.rare_item)
    \/ cnstname_raises("items", raw.very_rare_item)
    \/ cnstname_raises("pokemon", raw.first_form_index)
    \/ cnstname_raises("dex_colors", BitAnd(raw.pokedex_bits, 63))
    \/ parse_learnset_raises(Registry.tms, raw.tm_bits)
    \/ parse_learnset_raises(Registry.trs, raw.tr_bits)
    \/ parse_learnset_raises(Registry.move_tutors, raw.move_tutors_bits)
    \/ parse_learnset_raises(Registry.armor_tutors, raw.armor_tutors_bits)

\* The JSON entry unpack_personal builds from the unpacked values raw.
unpack_personal_entry(raw) ==
    LET ev == unpack_ev_yield(raw.ev_yield)
    IN  [ type_1              |-> cnstname("types", raw.type_1),
          type_2              |-> cnstname("types", raw.type_2),
          base_hp             |-> raw.base_hp,
          base_atk            |-> raw.base_atk,
          base_def            |-> raw.base_def,
          base_sp_atk         |-> raw.base_sp_atk,
          base_sp_def         |-> raw.base_sp_def,
          base_spd            |-> raw.base_spd,
          ability_1           |-> cnstname("abilities", raw.ability_1),
          ability_2           |-> cnstname("abilities", raw.ability_2),
          hidden_ability      |-> cnstname("abilities", raw.hidden_ability),
          height              |-> raw.height,
          weight              |-> raw.weight,
          evs_hp              |-> ev.evs_hp,
          evs_atk             |-> ev.evs_atk,
          evs_def             |-> ev.evs_def,
          evs_sp_atk          |-> ev.evs_sp_atk,
          evs_sp_def          |-> ev.evs_sp_def,
          evs_spd             |-> ev.evs_spd,
          fail_telekinesis    |-> ev.fail_telekinesis,
          catch_rate          |-> raw.catch_rate,
          gender_rate         |-> raw.gender_rate,
          base_exp            |-> raw.base_exp,
          growth_type         |-> cnstname("growth_types", raw.growth_type),
          special_z_item      |-> cnstname("items", raw.special_z_item),
          special_z_base_move |-> cnstname("moves", raw.special_z_base_move),
          special_z_move      |-> cnstname("moves", raw.special_z_move),
          egg_group_1         |-> cnstname("egg_groups", raw.egg_group_1),
          egg_group_2         |-> cnstname("egg_groups", raw.egg_group_2),
          evolution_stage     |-> raw.evolution_stage,
          egg_species         |-> cnstname("pokemon", raw.egg_species),
          egg_form            |-> raw.egg_form,
          hatch_cycles        |-> raw.hatch_cycles,
          base_friendship     |-> raw.base_friendship,
          common_item         |-> cnstname("items", raw.common_item),
          rare_item           |-> cnstname("items", raw.rare_item),
          very_rare_item      |-> cnstname("items", raw.very_rare_item),
          first_form_index    |-> cnstname("pokemon", raw.first_form_index),
          form_count          |-> raw.form_count,
          icon_id             |-> raw.icon_id,
          pokedex_number      |-> raw.pokedex_number,
          armor_dex_number    |-> raw.armor_dex_number,
          crown_dex_number    |-> raw.crown_dex_number,
          dex_color           |-> cnstname("dex_colors", BitAnd(raw.pokedex_bits, 63)),
          has_dex_entry       |-> BitAnd(raw.pokedex_bits, 64) # 0,
          is_visual_form      |-> BitAnd(raw.pokedex_bits, 128) # 0,
          is_regional_form    |-> BitAnd(raw.special_species_flags, 1) # 0,
          can_not_dynamax     |-> BitAnd(raw.special_species_flags, 4) # 0,
          tms                 |-> parse_learnset_bits(Registry.tms, raw.tm_bits),
          trs                 |-> parse_learnset_bits(Registry.trs, raw.tr_bits),
          move_tutors         |-> parse_learnset_bits(Registry.move_tutors,
                                                      raw.move_tutors_bits),
          armor_tutors        |-> parse_learnset_bits(Registry.armor_tutors,
                                                      raw.armor_tutors_bits),
          unk5E               |-> raw.unk5E,
          unk60               |-> hex(raw.unk60) ]

\* The number of records the loop of unpack_personal visits.
personal_record_count(buffer) == Len(buffer) \div RecordSize

unpack_personal_raises(buffer) ==
    \E i \in 0..(personal_record_count(buffer) - 1) :
        \/ unpack_entry_raises(personal_unpack_from(buffer, i * RecordSize))
        \/ cnstname_raises("pokemon", i)

\* The entries dict unpack_personal dumps.
unpack_personal(buffer) ==
    [i \in 1..personal_record_count(buffer) |->
        [ name  |-> cnstname("pokemon", i - 1),
          entry |-> unpack_personal_entry(
                       personal_unpack_from(buffer, (i - 1) * RecordSize)) ]]

\* The exception building the values of one entry raises, or "ok".
pack_entry_error(entry) ==
    IF \/ pack_learnset_raises(Registry.tms, entry.tms, 16)
       \/ pack_learnset_raises(Registry.move_tutors, entry.move_tutors, 4)
       \/ pack_learnset_raises(Registry.trs, entry.trs, 16)
       \/ pack_learnset_raises(Registry.armor_tutors, entry.armor_tutors, 4)
       THEN "IndexError"
    ELSE IF
            \/ cnstval_raises("types", entry.type_1)
            \/ cnstval_raises("types", entry.type_2)
            \/ cnstval_raises("items", entry.common_item)
            \/ cnstval_raises("items", entry.rare_item)
            \/ cnstval_raises("items", entry.very_rare_item)
            \/ cnstval_raises("growth_types", entry.growth_type)
            \/ cnstval_raises("egg_groups", entry.egg_group_1)
            \/ cnstval_raises("egg_groups", entry.egg_group_2)
            \/ cnstval_raises("abilities", entry.ability_1)
            \/ cnstval_raises("abilities", entry.ability_2)
            \/ cnstval_raises("abilities", entry.hidden_ability)
            \/ cnstval_raises("pokemon", entry.first_form_index)
            \/ cnstval_raises("dex_colors", entry.dex_color)
            \/ cnstval_raises("items", entry.special_z_item)
            \/ cnstval_raises("moves", entry.special_z_base_move)
            \/ cnstval_raises("moves", entry.special_z_move)
            \/ cnstval_raises("pokemon", entry.egg_species)
            \/ fromhex_raises(entry.unk60)
       THEN "ValueError"
    ELSE "ok"

\* The values pack_personal hands to pack_into for one entry, in order.
personal_values(entry) ==
    <<
       entry.base_hp,
       entry.base_atk,
       entry.base_def,
       entry.base_spd,
       entry.base_sp_atk,
       entry.base_sp_def,
       cnstval("types", entry.type_1),
       cnstval("types", entry.type_2),
       entry.catch_rate,
       entry.evolution_stage,
       pack_ev_yield(entry),
       cnstval("items", entry.common_item),
       cnstval("items", entry.rare_item),
       cnstval("items", entry.very_rare_item),
       entry.gender_rate,
       entry.hatch_cycles,
       entry.base_friendship,
       cnstval("growth_types", entry.growth_type),
       cnstval("egg_groups", entry.egg_group_1),
       cnstval("egg_groups", entry.egg_group_2),
       cnstval("abilities", entry.ability_1),
       cnstval("abilities", entry.ability_2),
       cnstval("abilities", entry.hidden_ability),
       cnstval("pokemon", entry.first_form_index),
       entry.form_count,
       BitOr(BitOr(cnstval("dex_colors", entry.dex_color),
                IF entry.has_dex_entry THEN 64 ELSE 0),
          IF entry.is_visual_form THEN 128 ELSE 0),
       entry.base_exp,
       entry.height,
       entry.weight,
       pack_learnset_bits(Registry.tms, entry.tms, 16),
       pack_learnset_bits(Registry.move_tutors, entry.move_tutors, 4),
       pack_learnset_bits(Registry.trs, entry.trs, 16),
       entry.icon_id,
       cnstval("items", entry.special_z_item),
       cnstval("moves", entry.special_z_base_move),
       cnstval("moves", entry.special_z_move),
       cnstval("pokemon", entry.egg_species),
       entry.egg_form,
       BitOr(IF entry.is_regional_form THEN 1 ELSE 0,
            IF entry.can_not_dynamax THEN 4 ELSE 0),
       entry.pokedex_number,
       entry.unk5E,
       fromhex(entry.unk60),
       pack_learnset_bits(Registry.armor_tutors, entry.armor_tutors, 4),
       entry.armor_dex_number,
       entry.crown_dex_number >>

\* Where pack_personal writes the k-th entry (k from 1) of its input, which
\* is keyed pokemon_name.
personal_offset(k, pokemon_name) == (k - 1) * RecordSize

\* The loop of pack_personal from the k-th entry on; st is the buffer and
\* the exception raised so far.
RECURSIVE pack_personal_loop(_, _, _)
pack_personal_loop(entries, k, st) ==
    IF k > Len(entries) \/ st.err # "ok" THEN st
    ELSE LET entry == entries[k].entry
             offset == personal_offset(k, entries[k].name)
         IN  IF pack_entry_error(entry) # "ok"
                THEN [st EXCEPT !.err = pack_entry_error(entry)]
             ELSE IF \/ personal_pack_raises(personal_values(entry))
                     \/ struct_short(st.buffer, offset, RecordSize)
                THEN [st EXCEPT !.err = "struct.error"]
             ELSE pack_personal_loop(entries, k + 1,
                     [st EXCEPT !.buffer =
                         WriteAt(@, offset, personal_pack(personal_values(entry)))])

RECURSIVE Times(_, _)
Times(n, bs) == IF n = 0 THEN <<>> ELSE bs \o Times(n - 1, bs)

pack_personal(entries) ==
    pack_personal_loop(entries, 1,
        [ buffer |-> Times(Len(Registry.pokemon), BLANK_PRSNL_ENTRY), err |-> "ok" ])

UnpackPersonal ==
    /\ Ran("upersonal")
    /\ Exists(pbin)
    /\ stdout' = <<>>
    /\ IF unpack_personal_raises(Content(pbin))
          THEN status' = "IndexError" /\ UNCHANGED pjson
          ELSE status' = "ok" /\ pjson' = File(unpack_personal(Content(pbin)))
    /\ UNCHANGED <<orig, pbin, wbin, wjson, cbin, cjson, fn>>

PackPersonal ==
    /\ Ran("ppersonal")
    /\ Exists(pjson)
    /\ stdout' = <<>>
    /\ LET r == pack_personal(Content(pjson))
       IN  /\ status' = r.err
           /\ IF r.err = "ok" THEN pbin' = File(r.buffer) ELSE UNCHANGED pbin
    /\ UNCHANGED <<orig, pjson, wbin, wjson, cbin, cjson, fn>>

(***************************************************************************)
(* pokecaplist.bin, the icon list.  POKECAPLIST_ENTRY_STRUCT is "<3Hx?":   *)
(* three 16-bit integers, a pad byte and a one-byte boolean.               *)
(***************************************************************************)
ChunkSize == 8

\* The loop of unpack_pokecaplist from offset on; st is the entries so far
\* and the exception raised.
RECURSIVE unpack_pokecaplist_loop(_, _, _)
unpack_pokecaplist_loop(buffer, offset, st) ==
    IF ~(offset < Len(buffer)) \/ st.err # "ok" THEN st
    ELSE IF struct_short(buffer, offset, ChunkSize)
        THEN [st EXCEPT !.err = "struct.error"]
    ELSE LET gender_type == le_value(Slice(buffer, offset + 4, 2))
         IN  IF cnstname_raises("genders", gender_type)
                THEN [st EXCEPT !.err = "IndexError"]
             ELSE unpack_pokecaplist_loop(buffer, offset + ChunkSize,
                     [st EXCEPT !.entries = Append(@,
                         [ icon_id       |-> le_value(Slice(buffer, offset, 2)),
                           form_id       |-> le_value(Slice(buffer, offset + 2, 2)),
                           gender_type   |-> cnstname("genders", gender_type),
                           is_gigantamax |-> buffer[offset + 8] # 0 ])])

unpack_pokecaplist(buffer) ==
    unpack_pokecaplist_loop(buffer, 0, [entries |-> <<>>, err |-> "ok"])

\* The loop of pack_pokecaplist from the k-th entry on.
RECURSIVE pack_pokecaplist_loop(_, _, _)
pack_pokecaplist_loop(entries, k, st) ==
    IF k > Len(entries) \/ st.err # "ok" THEN st
    ELSE LET entry == entries[k]
         IN  IF cnstval_raises("genders", entry.gender_type)
                THEN [st EXCEPT !.err = "ValueError"]
             ELSE IF \/ struct_range_error(entry.icon_id, 2)
                     \/ struct_range_error(entry.form_id, 2)
                     \/ struct_range_error(cnstval("genders", entry.gender_type), 2)
                THEN [st EXCEPT !.err = "struct.error"]
             ELSE pack_pokecaplist_loop(entries, k + 1,
                     [st EXCEPT !.buffer =
                         WriteAt(@, (k - 1) * ChunkSize,
                            le_bytes(entry.icon_id, 2) \o le_bytes(entry.form_id, 2)
                            \o le_bytes(cnstval("genders", entry.gender_type), 2)
                            \o <<0, IF entry.is_gigantamax THEN 1 ELSE 0>>)])

pack_pokecaplist(entries) ==
    pack_pokecaplist_loop(entries, 1,
        [buffer |-> Repeat(0, Len(entries) * ChunkSize), err |-> "ok"])

UnpackPokecaplist ==
    /\ Ran("upokecaplist")
    /\ Exists(cbin)
    /\ stdout' = <<>>
    /\ LET r == unpack_pokecaplist(Content(cbin))
       IN  /\ status' = r.err
           /\ IF r.err = "ok" THEN cjson' = File(r.entries) ELSE UNCHANGED cjson
    /\ UNCHANGED <<orig, pbin, pjson, wbin, wjson, cbin, fn>>

PackPokecaplist ==
    /\ Ran("ppokecaplist")
    /\ Exists(cjson)
    /\ stdout' = <<>>
    /\ LET r == pack_pokecaplist(Content(cjson))
       IN  /\ status' = r.err
           /\ IF r.err = "ok" THEN cbin' = File(r.buffer) ELSE UNCHANGED cbin
    /\ UNCHANGED <<orig, pbin, pjson, wbin, wjson, cjson, fn>>

(***************************************************************************)
(* The inputs of the level-up scenarios.                                   *)
(***************************************************************************)
\* An ordinary entry for position i of a list: distinct levels, so order shows.
WzPlain(i) == [level |-> i, move |-> Registry.moves[(i % Len(Registry.moves)) + 1]]

\* A list of n entries, plain but for entry sp at position p.
WzList(n, p, sp) == [i \in 1..n |-> IF i = p THEN sp ELSE WzPlain(i)]

WzSpecialEntries ==
    { [level |-> 0, move |-> "Pound"],
      [level |-> Sentinel - 1, move |-> "Karate Chop"],
      [level |-> Sentinel, move |-> "Pound"],
      [level |-> Sentinel + 1, move |-> "Pound"],
      [level |-> 7, move |-> "Splash"] }

WzLists ==
    { WzList(n, p, sp) : n \in {0, 2, SlotPairs, SlotPairs + 1},
                         p \in {1, SlotPairs, SlotPairs + 1},
                         sp \in WzSpecialEntries }

WzOtherLists == { <<>>, WzList(SlotPairs, 0, WzPlain(1)) }

\* The input objects: one creature with a list of WzLists (its key may be no
\* creature at all), alone or with one more creature before or after it.
WzJsonInputs ==
    LET known == {Registry.pokemon[k] : k \in 1..NumPokemon}
        keys == known \cup {"MissingNo"}
        pairs == {fo \in keys \X known : fo[1] # fo[2]}
    IN  { <<[name |-> f, moves |-> l]>> : f \in keys, l \in WzLists }
        \cup { <<[name |-> fo[1], moves |-> l], [name |-> fo[2], moves |-> m]>> :
                 fo \in pairs, l \in WzLists, m \in WzOtherLists }
        \cup { <<[name |-> fo[2], moves |-> m], [name |-> fo[1], moves |-> l]>> :
                 fo \in pairs, l \in WzLists, m \in WzOtherLists }
        \cup { <<>> }

\* Raw (move, level) pairs for the distinguished slots of a blob.
WzRawPairs ==
    { <<Sentinel, Sentinel>>, <<1, 5>>, <<Sentinel, 5>>, <<1, Sentinel>>,
      <<768, 5>>, <<768, Sentinel>> }

\* A blob of n records plus tail stray bytes.  Record 0 holds v1 at pair p1
\* and v2 at pair p2; its other pairs, and every pair of the other records,
\* are sentinels (fill = 0) or valid pairs (fill = 1).
WzBlob(n, fill, p1, v1, p2, v2, tail) ==
    [k \in 1..(n * SlotSize + tail) |->
        LET off == k - 1
            i == off \div SlotSize
            j == (off % SlotSize) \div 4
            b == off % 4
            pr == IF i = 0 /\ j = p1 THEN v1
                  ELSE IF i = 0 /\ j = p2 THEN v2
                  ELSE IF fill = 0 \/ i >= n THEN <<Sentinel, Sentinel>>
                  ELSE <<j % Len(Registry.moves), j + 1>>
        IN  (le_bytes(pr[1], 2) \o le_bytes(pr[2], 2))[b + 1]]

\* The shapes of a blob: <<whole records, stray bytes after them>>.
WzShapes == { <<NumPokemon, 0>>, <<NumPokemon, 1>>, <<NumPokemon + 1, 0>>, <<1, 3>> }

WzBinInputs ==
    { WzBlob(sh[1], fill, p1, v1, SlotPairs - 1, v2, sh[2]) :
        sh \in WzShapes, fill \in {0, 1},
        p1 \in {0, 32}, v1 \in WzRawPairs,
        v2 \in { <<Sentinel, Sentinel>>, <<1, 5>>, <<768, 5>> } }


(***************************************************************************)
(* The inputs of the base-stats scenarios.                                 *)
(***************************************************************************)
\* Record i of an input blob: the blank record with base_hp 10 + i, and for
\* m # <<>> the fields ev_yield, special_species_flags, type_1, the first
\* byte of tm_bits and pokedex_bits set from m.
PersonalRecord(i, m) ==
    LET plain == WriteAt(BLANK_PRSNL_ENTRY, 0, <<10 + i>>)
    IN  IF m = <<>> THEN plain
        ELSE WriteAt(WriteAt(WriteAt(WriteAt(WriteAt(plain,
                PersonalOffsets[PersonalIndex("ev_yield")], le_bytes(m[1], 2)),
                PersonalOffsets[PersonalIndex("special_species_flags")], le_bytes(m[2], 2)),
                PersonalOffsets[PersonalIndex("type_1")], <<m[3]>>),
                PersonalOffsets[PersonalIndex("tm_bits")], <<m[4]>>),
                PersonalOffsets[PersonalIndex("pokedex_bits")], <<m[5]>>)

PersonalMods ==
    { <<ev, fl, t[1], t[2], t[3]>> :
        ev \in {0, 437, 4095, 4096, 8192, 65535},
        fl \in {0, 5, 2},
        t \in { <<0, 0, 64>>, <<2, 5, 130>>, <<3, 0, 64>>, <<0, 8, 64>>, <<1, 0, 3>> } }

RECURSIVE PersonalPlainRecords(_, _)
PersonalPlainRecords(i, n) ==
    IF i >= n THEN <<>> ELSE PersonalRecord(i, <<>>) \o PersonalPlainRecords(i + 1, n)

\* The shapes of a blob: <<whole records, stray bytes after them>>.
PersonalShapes ==
    { <<NumPokemon, 0>>, <<NumPokemon, 1>>, <<NumPokemon + 1, 0>>, <<1, 5>> }

PersonalBinInputs ==
    { PersonalRecord(0, m) \o PersonalPlainRecords(1, sh[1]) \o Repeat(0, sh[2]) :
        m \in PersonalMods, sh \in PersonalShapes }

\* The entry of the blank record, the stock the input entries are cut from.
BlankEntry == unpack_personal_entry(personal_unpack_from(BLANK_PRSNL_ENTRY, 0))

PersonalEntries ==
    { [BlankEntry EXCEPT
          !.evs_hp = ev[1], !.evs_atk = ev[2], !.evs_def = ev[3],
          !.evs_spd = ev[4], !.evs_sp_atk = ev[5], !.evs_sp_def = ev[6],
          !.fail_telekinesis = ft,
          !.type_1 = t[1], !.tms = t[2], !.base_hp = t[3]] :
        ev \in { <<0, 0, 0, 0, 0, 0>>, <<1, 2, 3, 0, 1, 2>>,
                 <<3, 3, 3, 3, 3, 3>>, <<4, 5, 6, 7, 8, 9>> },
        ft \in BOOLEAN,
        t \in { <<"Normal", <<>>, 1>>,
                <<"Flying", <<"Pay Day", "Mega Punch">>, 255>>,
                <<"Bird", <<>>, 1>>,
                <<"Normal", <<"Mega Kick", "Hyper Beam">>, 2>>,
                <<"Fighting", <<>>, 256>> } }

PersonalOtherEntry == [BlankEntry EXCEPT !.base_hp = 7, !.is_regional_form = TRUE]

\* The input objects: one creature with an entry of PersonalEntries (its key
\* may be no creature at all), alone or with one more before or after it.
PersonalJsonInputs ==
    LET known == {Registry.pokemon[k] : k \in 1..NumPokemon}
        keys == known \cup {"MissingNo"}
        pairs == {fo \in keys \X known : fo[1] # fo[2]}
    IN  { <<[name |-> f, entry |-> e]>> : f \in keys, e \in PersonalEntries }
        \cup { <<[name |-> fo[1], entry |-> e],
                 [name |-> fo[2], entry |-> PersonalOtherEntry]>> :
                 fo \in pairs, e \in PersonalEntries }
        \cup { <<[name |-> fo[2], entry |-> PersonalOtherEntry],
                 [name |-> fo[1], entry |-> e]>> :
                 fo \in pairs, e \in PersonalEntries }
        \cup { <<>> }

(***************************************************************************)
(* The inputs of the icon-list scenarios.                                  *)
(***************************************************************************)
IconChunks ==
    { le_bytes(ic, 2) \o <<1, 0>> \o le_bytes(g, 2) \o <<pad, b>> :
        ic \in {1, 4660}, g \in {0, 2, 3}, pad \in {0, 7}, b \in {0, 1, 2} }

IconBinInputs ==
    { c \o d \o Repeat(0, tail) :
        c \in IconChunks \cup {<<>>},
        d \in { <<>>, <<2, 0, 0, 0, 1, 0, 0, 1>> },
        tail \in {0, 3} }

IconEntries ==
    { [icon_id |-> ic, form_id |-> 1, gender_type |-> g, is_gigantamax |-> b] :
        ic \in {0, 65535, 65536}, g \in {"Male", "Genderless", "Unknown"},
        b \in BOOLEAN }

IconJsonInputs ==
    { <<>> } \cup { <<e>> : e \in IconEntries }
    \cup { <<[icon_id |-> 2, form_id |-> 0, gender_type |-> "Female",
              is_gigantamax |-> TRUE], e>> : e \in IconEntries }

NoFn == [op |-> "none"]

InitWazaoboe ==
    /\ trace = <<>> /\ status = "ok" /\ stdout = <<>>
    /\ pbin = NoFile /\ pjson = NoFile /\ cbin = NoFile /\ cjson = NoFile
    /\ fn = NoFn
    /\ \/ /\ wbin = NoFile
          /\ \E j \in WzJsonInputs : wjson = File(j)
       \/ /\ wjson = NoFile
          /\ \E b \in WzBinInputs : wbin = File(b)
    /\ orig = [json |-> wjson, bin |-> wbin]

NextWazaoboe == PackWazaoboe \/ UnpackWazaoboe

InitPersonal ==
    /\ trace = <<>> /\ status = "ok" /\ stdout = <<>>
    /\ wbin = NoFile /\ wjson = NoFile /\ cbin = NoFile /\ cjson = NoFile
    /\ fn = NoFn
    /\ \/ /\ pbin = NoFile
          /\ \E j \in PersonalJsonInputs : pjson = File(j)
       \/ /\ pjson = NoFile
          /\ \E b \in PersonalBinInputs : pbin = File(b)
    /\ orig = [json |-> pjson, bin |-> pbin]

InitPokecaplist ==
    /\ trace = <<>> /\ status = "ok" /\ stdout = <<>>
    /\ wbin = NoFile /\ wjson = NoFile /\ pbin = NoFile /\ pjson = NoFile
    /\ fn = NoFn
    /\ \/ /\ cbin = NoFile
          /\ \E j \in IconJsonInputs : cjson = File(j)
       \/ /\ cjson = NoFile
          /\ \E b \in IconBinInputs : cbin = File(b)
    /\ orig = [json |-> cjson, bin |-> cbin]

NextPersonal == PackPersonal \/ UnpackPersonal

SpecPersonal == InitPersonal /\ [][NextPersonal]_vars

NextPokecaplist == PackPokecaplist \/ UnpackPokecaplist

SpecPokecaplist == InitPokecaplist /\ [][NextPokecaplist]_vars

(***************************************************************************)
(* A harness for the two pure codecs inside the base-stats converters: fn  *)
(* holds the input drawn, and each step applies one of them.               *)
(***************************************************************************)
EvEntries ==
    [ evs_hp : 0..MaxEV, evs_atk : 0..MaxEV, evs_def : 0..MaxEV, evs_spd : 0..MaxEV,
      evs_sp_atk : 0..MaxEV, evs_sp_def : 0..MaxEV, fail_telekinesis : BOOLEAN ]

NoEv == [ evs_hp |-> 0, evs_atk |-> 0, evs_def |-> 0, evs_spd |-> 0,
          evs_sp_atk |-> 0, evs_sp_def |-> 0, fail_telekinesis |-> FALSE ]

NoFiles ==
    /\ trace = <<>> /\ status = "ok" /\ stdout = <<>>
    /\ pbin = NoFile /\ pjson = NoFile /\ wbin = NoFile /\ wjson = NoFile
    /\ cbin = NoFile /\ cjson = NoFile
    /\ orig = [json |-> NoFile, bin |-> NoFile]

\* Either an entry to pack and unpack again, or a raw 16-bit field to unpack.
InitEV ==
    /\ NoFiles
    /\ \/ \E e \in EvEntries :
             fn = [op |-> "ev", stage |-> "entry", entry |-> e, raw |-> 0, out |-> NoEv]
       \/ \E r \in 0..Sentinel :
             fn = [op |-> "ev", stage |-> "raw", entry |-> NoEv, raw |-> r, out |-> NoEv]

EvPack ==
    /\ fn.op = "ev" /\ fn.stage = "entry"
    /\ fn' = [fn EXCEPT !.stage = "packed", !.raw = pack_ev_yield(fn.entry)]
    /\ UNCHANGED <<orig, trace, status, stdout, pbin, pjson, wbin, wjson, cbin, cjson>>

EvUnpack ==
    /\ fn.op = "ev" /\ fn.stage \in {"packed", "raw"}
    /\ fn' = [fn EXCEPT !.stage = IF fn.stage = "packed" THEN "unpacked" ELSE "decoded",
                        !.out = unpack_ev_yield(fn.raw)]
    /\ UNCHANGED <<orig, trace, status, stdout, pbin, pjson, wbin, wjson, cbin, cjson>>

NextEV == EvPack \/ EvUnpack

SpecEV == InitEV /\ [][NextEV]_vars

\* Master lists are the leading names of this one; names are distinct.
MasterNames ==
    << "Mega Punch", "Mega Kick", "Pay Day", "Fire Punch", "Ice Punch",
       "Thunder Punch", "Fly", "Pin Missile", "Hyper Beam", "Giga Impact",
       "Magical Leaf", "Solar Beam" >>

\* The names at the positions S of master, in rising or in falling order.
RECURSIVE Pick(_, _, _)
Pick(master, S, rising) ==
    IF S = {} THEN <<>>
    ELSE LET k == IF rising THEN CHOOSE x \in S : \A y \in S : x <= y
                  ELSE CHOOSE x \in S : \A y \in S : x >= y
         IN  <<master[k]>> \o Pick(master, S \ {k}, rising)

InitBits ==
    /\ NoFiles
    /\ \E n \in 0..MaxMaster : \E S \in SUBSET (1..n) : \E rising \in BOOLEAN :
          fn = [ op |-> "bits", stage |-> "names",
                 master |-> SubSeq(MasterNames, 1, n),
                 selected |-> Pick(MasterNames, S, rising),
                 bits |-> <<>>, out |-> <<>> ]

BitsEncode ==
    /\ fn.op = "bits" /\ fn.stage = "names"
    /\ fn' = [fn EXCEPT !.stage = "encoded",
                        !.bits = pack_learnset_bits(fn.master, fn.selected,
                                                    (Len(fn.master) + 7) \div 8)]
    /\ UNCHANGED <<orig, trace, status, stdout, pbin, pjson, wbin, wjson, cbin, cjson>>

BitsDecode ==
    /\ fn.op = "bits" /\ fn.stage = "encoded"
    /\ fn' = [fn EXCEPT !.stage = "decoded",
                        !.out = parse_learnset_bits(fn.master, fn.bits)]
    /\ UNCHANGED <<orig, trace, status, stdout, pbin, pjson, wbin, wjson, cbin, cjson>>

NextBits == BitsEncode \/ BitsDecode

SpecBits == InitBits /\ [][NextBits]_vars

\* The tool on any of its three kinds of file.
Init == InitPersonal \/ InitWazaoboe \/ InitPokecaplist

Next ==
    \/ UnpackPersonal
    \/ PackPersonal
    \/ UnpackWazaoboe
    \/ PackWazaoboe
    \/ UnpackPokecaplist
    \/ PackPokecaplist

Spec == Init /\ [][Next]_vars


SpecWazaoboe == InitWazaoboe /\ [][NextWazaoboe]_vars

(***************************************************************************)
(* Properties of the level-up converters.                                  *)
(***************************************************************************)
LastRun == IF trace = <<>> THEN "none" ELSE trace[Len(trace)]

\* The raw 16-bit words of pair j of record i of a blob, read off its bytes.
RawMove(buffer, i, j) ==
    buffer[i * SlotSize + 4 * j + 1] + 256 * buffer[i * SlotSize + 4 * j + 2]
RawLevel(buffer, i, j) ==
    buffer[i * SlotSize + 4 * j + 3] + 256 * buffer[i * SlotSize + 4 * j + 4]

\* The pairs of record i neither of whose words is the sentinel.
LivePairs(buffer, i) ==
    { j \in 0..(SlotPairs - 1) :
        RawMove(buffer, i, j) # Sentinel /\ RawLevel(buffer, i, j) # Sentinel }

\* C4: a successful unpack_wazaoboe lists, for every record, exactly the pairs
\* with both words different from 0xFFFF, in slot order, wherever the
\* sentinel pairs lie; a pair with a sentinel word is never listed.
C4_SentinelDecode ==
    (LastRun = "uwazaoboe" /\ status = "ok") =>
        LET buffer == Content(wbin)
            out == Content(wjson)
        IN  /\ Len(out) = Len(buffer) \div SlotSize
            /\ \A i \in 1..Len(out) :
                LET live == LivePairs(buffer, i - 1)
                IN  /\ out[i].name = Registry.pokemon[i]
                    /\ Len(out[i].moves) = Cardinality(live)
                    /\ \A j \in live :
                          LET k == Cardinality({h \in live : h < j}) + 1
                          IN  /\ out[i].moves[k].level = RawLevel(buffer, i - 1, j)
                              /\ out[i].moves[k].move =
                                    Registry.moves[RawMove(buffer, i - 1, j) + 1]

\* A record with a double sentinel first, a half sentinel in the middle and a
\* live pair last has been unpacked.
C4_Witness ==
    /\ LastRun = "uwazaoboe" /\ status = "ok" /\ orig.json = NoFile
    /\ RawMove(Content(wbin), 0, 0) = Sentinel
    /\ RawLevel(Content(wbin), 0, 0) = Sentinel
    /\ RawMove(Content(wbin), 0, 1) # Sentinel
    /\ RawLevel(Content(wbin), 0, 1) # Sentinel
    /\ RawMove(Content(wbin), 0, SlotPairs - 1) = 1
    /\ Content(wjson)[1].moves[Len(Content(wjson)[1].moves)] =
          [level |-> 5, move |-> "Pound"]

\* The list the input object gives creature name (none: the empty list).
InputList(json, name) ==
    IF \E k \in 1..Len(json) : json[k].name = name
       THEN json[CHOOSE k \in 1..Len(json) : json[k].name = name].moves
       ELSE <<>>

InTable(category, cname) ==
    \E k \in 1..Len(Registry[category]) : Registry[category][k] = cname

\* The input object of a pack-then-unpack run whose keys are creatures and
\* whose lists hold at most 65 entries with a known move and a level <= top.
RoundTripInput(top) ==
    /\ trace = <<"pwazaoboe", "uwazaoboe">>
    /\ Exists(orig.json)
    /\ \A k \in 1..Len(Content(orig.json)) :
          LET e == Content(orig.json)[k]
          IN  /\ InTable("pokemon", e.name)
              /\ Len(e.moves) <= SlotPairs
              /\ \A n \in 1..Len(e.moves) :
                    /\ e.moves[n].level \in 0..top
                    /\ InTable("moves", e.moves[n].move)

RoundTripHolds ==
    /\ status = "ok"
    /\ Exists(wjson)
    /\ \A k \in 1..Len(Content(orig.json)) :
          InputList(Content(wjson), Content(orig.json)[k].name) =
             Content(orig.json)[k].moves

\* C1 as stated: levels range over all of 0..65535.
C1_RoundTripAnyLevel == RoundTripInput(Sentinel) => RoundTripHolds

\* C1, amended: pack_wazaoboe then unpack_wazaoboe returns every creature's
\* list unchanged when its levels lie in 0..65534 (0xFFFF marks an empty
\* slot and is dropped by the decoder).
C1_RoundTrip == RoundTripInput(Sentinel - 1) => RoundTripHolds

\* A full list of 65 entries, one of them at level 65534, has come back.
C1_Witness ==
    /\ RoundTripInput(Sentinel - 1)
    /\ Len(Content(orig.json)) = 2
    /\ Len(Content(orig.json)[1].moves) = SlotPairs
    /\ Content(orig.json)[1].moves[SlotPairs].level = Sentinel - 1
    /\ Content(wjson)[1].moves = Content(orig.json)[1].moves

\* The code of a move name: its position in the table, counted from 0.
MoveCode(cname) == (CHOOSE k \in 1..Len(Registry.moves) : Registry.moves[k] = cname) - 1

\* What creature slot c of the output must hold for the list l: the leading
\* entries, at most 65, four bytes each, then 0xFF to the end of the slot.
ExpectedSlotByte(l, off) ==
    LET n == off \div 4
        b == off % 4
    IN  IF n >= Len(l) \/ n >= SlotPairs THEN 255
        ELSE IF b = 0 THEN MoveCode(l[n + 1].move) % 256
        ELSE IF b = 1 THEN MoveCode(l[n + 1].move) \div 256
        ELSE IF b = 2 THEN l[n + 1].level % 256
        ELSE l[n + 1].level \div 256

Leading(l) == SubSeq(l, 1, IF Len(l) > SlotPairs THEN SlotPairs ELSE Len(l))

\* Every key is a creature and every entry that is to be written is writable.
Packable(json) ==
    \A k \in 1..Len(json) :
        /\ InTable("pokemon", json[k].name)
        /\ \A n \in 1..Len(Leading(json[k].moves)) :
              /\ InTable("moves", json[k].moves[n].move)
              /\ json[k].moves[n].level \in 0..Sentinel

\* C5: pack_wazaoboe of packable input succeeds whatever the list lengths;
\* it warns about exactly the creatures with more than 65 entries (none for
\* 65); each creature's slot holds its leading 65 entries and 0xFF after
\* them, every other slot is all 0xFF; and unpacking gives back the leading
\* 65 entries of every list (of entries that are valid, level # 0xFFFF).
C5_Capacity ==
    /\ (trace = <<"pwazaoboe">> /\ Packable(Content(orig.json))) =>
          LET json == Content(orig.json)
          IN  /\ status = "ok"
              /\ Exists(wbin)
              /\ Len(Content(wbin)) = Len(Registry.pokemon) * SlotSize
              /\ \A k \in 1..Len(json) :
                    (\E n \in 1..Len(stdout) : stdout[n] = json[k].name)
                       <=> Len(json[k].moves) > SlotPairs
              /\ \A n \in 1..Len(stdout) : \E k \in 1..Len(json) : json[k].name = stdout[n]
              /\ \A c \in 1..Len(Registry.pokemon) :
                    LET l == InputList(json, Registry.pokemon[c])
                        slot == SubSeq(Content(wbin), (c - 1) * SlotSize + 1, c * SlotSize)
                    IN  \A off \in 0..(SlotSize - 1) :
                           slot[off + 1] = ExpectedSlotByte(l, off)
    /\ (/\ trace = <<"pwazaoboe", "uwazaoboe">>
        /\ Exists(orig.json)
        /\ Packable(Content(orig.json))
        /\ \A k \in 1..Len(Content(orig.json)) :
              \A n \in 1..Len(Leading(Content(orig.json)[k].moves)) :
                 Content(orig.json)[k].moves[n].level # Sentinel) =>
          /\ status = "ok"
          /\ \A k \in 1..Len(Content(orig.json)) :
                InputList(Content(wjson), Content(orig.json)[k].name) =
                   Leading(Content(orig.json)[k].moves)

\* A list of 66 entries has been packed ahead of another creature's full
\* list of 65: one warning, and the run went on.
C5_Witness ==
    /\ trace = <<"pwazaoboe">> /\ status = "ok"
    /\ Len(Content(orig.json)) = 2
    /\ Len(Content(orig.json)[1].moves) = SlotPairs + 1
    /\ Len(Content(orig.json)[2].moves) = SlotPairs
    /\ stdout = <<Content(orig.json)[1].name>>
    /\ Content(orig.json)[1].name = Registry.pokemon[1]

(***************************************************************************)
(* Properties of the base-stats converters.                                *)
(***************************************************************************)
\* Every enum-coded field of every record of the blob is a code of its table.
EnumCodesInRange(buffer) ==
    \A i \in 0..((Len(buffer) \div RecordSize) - 1) :
        LET raw == personal_unpack_from(buffer, i * RecordSize)
        IN
              /\ raw.type_1 < Len(Registry.types)
              /\ raw.type_2 < Len(Registry.types)
              /\ raw.ability_1 < Len(Registry.abilities)
              /\ raw.ability_2 < Len(Registry.abilities)
              /\ raw.hidden_ability < Len(Registry.abilities)
              /\ raw.growth_type < Len(Registry.growth_types)
              /\ raw.special_z_item < Len(Registry.items)
              /\ raw.special_z_base_move < Len(Registry.moves)
              /\ raw.special_z_move < Len(Registry.moves)
              /\ raw.egg_group_1 < Len(Registry.egg_groups)
              /\ raw.egg_group_2 < Len(Registry.egg_groups)
              /\ raw.egg_species < Len(Registry.pokemon)
              /\ raw.common_item < Len(Registry.items)
              /\ raw.rare_item < Len(Registry.items)
              /\ raw.very_rare_item < Len(Registry.items)
              /\ raw.first_form_index < Len(Registry.pokemon)
              /\ raw.pokedex_bits % 64 < Len(Registry.dex_colors)

\* C2: unpack_personal then pack_personal gives back, byte for byte, every
\* blob of len(pokemon) records whose enum codes are in range.
C2_RawRoundTrip ==
    (/\ trace = <<"upersonal", "ppersonal">>
     /\ Exists(orig.bin)
     /\ Len(Content(orig.bin)) = Len(Registry.pokemon) * RecordSize
     /\ EnumCodesInRange(Content(orig.bin))) =>
        /\ status = "ok"
        /\ pbin = orig.bin

\* The entry the input object gives creature name.
InputEntry(json, name) ==
    json[CHOOSE k \in 1..Len(json) : json[k].name = name].entry

\* C3: pack_personal writes len(pokemon) records; the entry keyed n lies at
\* record indexOf(pokemon, n), and the record of every creature the input
\* leaves out is the blank record.
C3_Placement ==
    (/\ trace = <<"ppersonal">> /\ status = "ok"
     /\ \A k \in 1..Len(Content(orig.json)) :
           InTable("pokemon", Content(orig.json)[k].name)) =>
        /\ Len(Content(pbin)) = Len(Registry.pokemon) * RecordSize
        /\ \A c \in 1..Len(Registry.pokemon) :
              Slice(Content(pbin), (c - 1) * RecordSize, RecordSize) =
                 IF \E k \in 1..Len(Content(orig.json)) :
                       Content(orig.json)[k].name = Registry.pokemon[c]
                    THEN personal_pack(personal_values(
                            InputEntry(Content(orig.json), Registry.pokemon[c])))
                    ELSE BLANK_PRSNL_ENTRY

(***************************************************************************)
(* Properties of all three decoders and encoders.                          *)
(***************************************************************************)
\* C8: a blob whose length is no multiple of the record size (0xB0, 0x104,
\* 8) makes the decoder fail, and no output file is written.
C8_MalformedLength ==
    /\ (trace = <<"upersonal">> /\ Len(Content(pbin)) % RecordSize # 0) =>
          (status # "ok" /\ pjson = NoFile)
    /\ (trace = <<"uwazaoboe">> /\ Len(Content(wbin)) % SlotSize # 0) =>
          (status # "ok" /\ wjson = NoFile)
    /\ (trace = <<"upokecaplist">> /\ Len(Content(cbin)) % ChunkSize # 0) =>
          (status # "ok" /\ cjson = NoFile)

\* Some name of list is none of the names of master.
HasUnknown(list, master) ==
    \E k \in 1..Len(list) : \A m \in 1..Len(master) : master[m] # list[k]

\* Some learnset list of the entry names a move its master list does not hold.
UnknownLearnsetName(entry) ==
    \/ HasUnknown(entry.tms, Registry.tms)
    \/ HasUnknown(entry.trs, Registry.trs)
    \/ HasUnknown(entry.move_tutors, Registry.move_tutors)
    \/ HasUnknown(entry.armor_tutors, Registry.armor_tutors)

\* Some enum-valued field of the entry names nothing in its table.
UnknownEnumName(entry) ==
    \/ ~InTable("types", entry.type_1)
    \/ ~InTable("types", entry.type_2)
    \/ ~InTable("items", entry.common_item)
    \/ ~InTable("items", entry.rare_item)
    \/ ~InTable("items", entry.very_rare_item)
    \/ ~InTable("growth_types", entry.growth_type)
    \/ ~InTable("egg_groups", entry.egg_group_1)
    \/ ~InTable("egg_groups", entry.egg_group_2)
    \/ ~InTable("abilities", entry.ability_1)
    \/ ~InTable("abilities", entry.ability_2)
    \/ ~InTable("abilities", entry.hidden_ability)
    \/ ~InTable("pokemon", entry.first_form_index)
    \/ ~InTable("dex_colors", entry.dex_color)
    \/ ~InTable("items", entry.special_z_item)
    \/ ~InTable("moves", entry.special_z_base_move)
    \/ ~InTable("moves", entry.special_z_move)
    \/ ~InTable("pokemon", entry.egg_species)

\* C9: an enum code out of range in the input of a decoder, or an enum name
\* absent from its table in the input of an encoder, makes the run fail and
\* leaves no output file, whichever record holds it.
C9_EnumFailure ==
    /\ (trace = <<"upersonal">> /\ ~EnumCodesInRange(Content(pbin))) =>
          (status # "ok" /\ pjson = NoFile)
    /\ (/\ trace = <<"uwazaoboe">>
        /\ \E i \in 0..((Len(Content(wbin)) \div SlotSize) - 1) :
              \E j \in LivePairs(Content(wbin), i) :
                 RawMove(Content(wbin), i, j) >= Len(Registry.moves)) =>
          (status # "ok" /\ wjson = NoFile)
    /\ (/\ trace = <<"upokecaplist">>
        /\ \E c \in 0..((Len(Content(cbin)) \div ChunkSize) - 1) :
              Content(cbin)[c * ChunkSize + 5] + 256 * Content(cbin)[c * ChunkSize + 6]
                 >= Len(Registry.genders)) =>
          (status # "ok" /\ cjson = NoFile)
    /\ (/\ trace = <<"ppersonal">>
        /\ \E k \in 1..Len(Content(pjson)) :
              \/ ~InTable("pokemon", Content(pjson)[k].name)
              \/ UnknownEnumName(Content(pjson)[k].entry)
              \/ UnknownLearnsetName(Content(pjson)[k].entry)) =>
          (status # "ok" /\ pbin = NoFile)
    /\ (/\ trace = <<"pwazaoboe">>
        /\ \E k \in 1..Len(Content(wjson)) :
              \/ ~InTable("pokemon", Content(wjson)[k].name)
              \/ \E n \in 1..Len(Leading(Content(wjson)[k].moves)) :
                    ~InTable("moves", Content(wjson)[k].moves[n].move)) =>
          (status # "ok" /\ wbin = NoFile)
    /\ (/\ trace = <<"ppokecaplist">>
        /\ \E k \in 1..Len(Content(cjson)) :
              ~InTable("genders", Content(cjson)[k].gender_type)) =>
          (status # "ok" /\ cbin = NoFile)

(***************************************************************************)
(* Properties of the EV-yield field and of the learnset bit arrays.        *)
(***************************************************************************)
\* C7: packing an entry's EV yields and flag and unpacking the field gives
\* every yield back modulo 4 (so 0..3 exactly, with no bit of one yield in
\* another or in the flag) and the flag unchanged.
C7_EvRoundTrip ==
    (fn.op = "ev" /\ fn.stage = "unpacked") =>
        /\ fn.out.evs_hp = fn.entry.evs_hp % 4
        /\ fn.out.evs_atk = fn.entry.evs_atk % 4
        /\ fn.out.evs_def = fn.entry.evs_def % 4
        /\ fn.out.evs_spd = fn.entry.evs_spd % 4
        /\ fn.out.evs_sp_atk = fn.entry.evs_sp_atk % 4
        /\ fn.out.evs_sp_def = fn.entry.evs_sp_def % 4
        /\ fn.out.fail_telekinesis = fn.entry.fail_telekinesis

\* Yields above 3 next to yields of 0 have been packed and unpacked.
C7_Witness ==
    /\ fn.op = "ev" /\ fn.stage = "unpacked"
    /\ fn.entry.evs_hp = MaxEV /\ fn.entry.evs_atk = 0 /\ fn.entry.evs_spd = 3
    /\ fn.entry.evs_sp_atk = 1 /\ fn.entry.evs_sp_def = MaxEV
    /\ fn.entry.fail_telekinesis
    /\ fn.out.evs_hp = 0 /\ fn.out.evs_spd = 3 /\ fn.out.fail_telekinesis

\* Bit n of the integer v.
Bit(v, n) == (v \div Pow2(n)) % 2

\* C10: unpacking a raw EV-yield field gives hp, atk, def, spd, sp_atk and
\* sp_def the two bits at offsets 0, 2, 4, 6, 8 and 10, and fail_telekinesis
\* bit 12; bits 13 to 15 change nothing.
C10_EvLayout ==
    (fn.op = "ev" /\ fn.stage = "decoded") =>
        /\ fn.out.evs_hp = Bit(fn.raw, 0) + 2 * Bit(fn.raw, 1)
        /\ fn.out.evs_atk = Bit(fn.raw, 2) + 2 * Bit(fn.raw, 3)
        /\ fn.out.evs_def = Bit(fn.raw, 4) + 2 * Bit(fn.raw, 5)
        /\ fn.out.evs_spd = Bit(fn.raw, 6) + 2 * Bit(fn.raw, 7)
        /\ fn.out.evs_sp_atk = Bit(fn.raw, 8) + 2 * Bit(fn.raw, 9)
        /\ fn.out.evs_sp_def = Bit(fn.raw, 10) + 2 * Bit(fn.raw, 11)
        /\ fn.out.fail_telekinesis = (Bit(fn.raw, 12) = 1)

\* The positions of master whose name is among selected.
Chosen(master, selected) ==
    { i \in 0..(Len(master) - 1) : \E k \in 1..Len(selected) : selected[k] = master[i + 1] }

\* C6: encoding a subset of a master list of N names gives ceil(N/8) bytes
\* in which bit i&7 of byte i>>3 is set iff name i is chosen, and decoding
\* them gives exactly the chosen names in master order, whatever the order
\* of the names given.
C6_BitsRoundTrip ==
    /\ (fn.op = "bits" /\ fn.stage \in {"encoded", "decoded"}) =>
          /\ Len(fn.bits) = (Len(fn.master) + 7) \div 8
          /\ \A i \in 0..(8 * Len(fn.bits) - 1) :
                Bit(fn.bits[(i \div 8) + 1], i % 8) = 1
                   <=> i \in Chosen(fn.master, fn.selected)
    /\ (fn.op = "bits" /\ fn.stage = "decoded") =>
          LET S == Chosen(fn.master, fn.selected)
          IN  /\ Len(fn.out) = Cardinality(S)
              /\ \A i \in S :
                    fn.out[Cardinality({h \in S : h < i}) + 1] = fn.master[i + 1]

\* Names on both sides of the first byte, given in falling order and one
\* left out between them, have come back in master order.
C6_Witness ==
    /\ fn.op = "bits" /\ fn.stage = "decoded"
    /\ Len(fn.master) = MaxMaster
    /\ fn.selected = <<fn.master[MaxMaster], fn.master[8], fn.master[1]>>
    /\ fn.out = <<fn.master[1], fn.master[8], fn.master[MaxMaster]>>

====
